---- MODULE Spec2Model ----
(***************************************************************************)
(* Model of src/mcp_server/main.py: a FastAPI application with a static    *)
(* registry of model handlers, GET / (read_root) and POST /invoke          *)
(* (invoke_model).                                                         *)
(*                                                                         *)
(* JSON values are tagged records; a JSON object (a Python dict) is the    *)
(* sequence of its <<key, value>> pairs in insertion order, keys distinct. *)
(* Python strings are TLA+ strings, and f-string formatting is string      *)
(* concatenation of the str() of the formatted value.                      *)
(*                                                                         *)
(* invoke_model is an `async def` without an await and read_root touches   *)
(* no shared object, so each request is one atomic action.                 *)
(***************************************************************************)
EXTENDS Integers, Sequences, FiniteSets, TLC

VARIABLES
    registry,   \* MODEL_REGISTRY: model id -> handler (the function's name)
    req,        \* the last request received: method, path, raw JSON body
    resp,       \* the response to it: status, body
    lookups,    \* how many times that request read MODEL_REGISTRY
    calls,      \* the handler calls that request made, in order, each with
                \* its arguments and its outcome
    escaped,    \* whether a handler exception left invoke_model uncaught
    seen,       \* the status codes of all the requests before the last one
    served      \* how many requests have been answered

vars == <<registry, req, resp, lookups, calls, escaped, seen, served>>

\* How many requests a behaviour holds.
MaxRequests == 4

\* The magnitude of the integer a request context gives as a name.
MaxInt == 42

-----------------------------------------------------------------------------
(* JSON values                                                             *)

JNull == [t |-> "null"]
JStr(s) == [t |-> "str", s |-> s]
JInt(i) == [t |-> "int", i |-> i]
JBool(b) == [t |-> "bool", b |-> b]
JList(l) == [t |-> "list", l |-> l]
JObj(o) == [t |-> "obj", o |-> o]

\* Python's None, as dict.get returns it for a missing key.
None == [t |-> "None"]

\* key in d
DictHas(d, k) == \E n \in 1..Len(d.o) : d.o[n][1] = k

\* d.get(k, default)
DictGet(d, k, default) ==
    IF DictHas(d, k)
    THEN d.o[CHOOSE n \in 1..Len(d.o) : d.o[n][1] = k][2]
    ELSE default

Digit == <<"0", "1", "2", "3", "4", "5", "6", "7", "8", "9">>

\* str(n) of a Python int
RECURSIVE IntStr(_)
IntStr(n) ==
    IF n < 0 THEN "-" \o IntStr(-n)
    ELSE IF n < 10 THEN Digit[n + 1]
    ELSE IntStr(n \div 10) \o Digit[(n % 10) + 1]

\* ", ".join(xs)
RECURSIVE Join(_)
Join(xs) ==
    IF Len(xs) = 0 THEN ""
    ELSE IF Len(xs) = 1 THEN xs[1]
    ELSE xs[1] \o ", " \o Join(Tail(xs))

\* repr(v) of the Python value a JSON value parses to (strings here hold no
\* quote or escape character, so repr quotes them with ')
RECURSIVE PyRepr(_)
PyRepr(v) ==
    CASE v.t = "str" -> "'" \o v.s \o "'"
      [] v.t = "int" -> IntStr(v.i)
      [] v.t = "bool" -> IF v.b THEN "True" ELSE "False"
      [] v.t = "null" -> "None"
      [] v.t = "list" ->
            "[" \o Join([n \in 1..Len(v.l) |-> PyRepr(v.l[n])]) \o "]"
      [] v.t = "obj" ->
            "{" \o Join([n \in 1..Len(v.o) |->
                           "'" \o v.o[n][1] \o "': " \o PyRepr(v.o[n][2])])
                \o "}"

\* str(v), which is what an f-string field {v} formats to
PyStr(v) == IF v.t = "str" THEN v.s ELSE PyRepr(v)

-----------------------------------------------------------------------------
(* Model handlers and the registry                                         *)

Return(v) == [kind |-> "return", value |-> v]
Raise(cls, arg) == [kind |-> "raise", cls |-> cls, arg |-> arg]

\* Mutant: echoes the parameters when the request gives some.
EchoParameters(context, parameters) ==
    Return(JObj(<< <<"echo", IF parameters.t = "obj" THEN parameters ELSE context>> >>))

\* echo_model_handler(context, parameters)
echo_model_handler(context, parameters) ==
    Return(JObj(<< <<"echo", context>> >>))

\* bool(v)
Truthy(v) ==
    CASE v.t = "str" -> v.s # ""
      [] v.t = "int" -> v.i # 0
      [] v.t = "bool" -> v.b
      [] v.t = "null" -> FALSE
      [] v.t = "list" -> Len(v.l) > 0
      [] v.t = "obj" -> Len(v.o) > 0

\* Mutant: context.get("name") or "World", which also replaces a falsy name.
GreetingOrDefault(context, parameters) ==
    LET got == DictGet(context, "name", JNull)
        name == IF Truthy(got) THEN got ELSE JStr("World")
    IN  Return(JObj(<< <<"greeting", JStr("Hello, " \o PyStr(name) \o "!")>> >>))

\* greeting_model_handler(context, parameters)
greeting_model_handler(context, parameters) ==
    LET name == DictGet(context, "name", JStr("World"))
    IN  Return(JObj(<< <<"greeting", JStr("Hello, " \o PyStr(name) \o "!")>> >>))

\* A handler that raises an error on every call, whatever its arguments: the
\* errors drawn are instances of Exception subclasses.
raising_handler(context, parameters) ==
    { Raise("ValueError", "boom"),
      Raise("KeyError", "name"),
      Raise("RuntimeError", "") }

\* A function object, by the name of its def.
Function(name) == [t |-> "function", name |-> name]

\* handler(context, parameters): the outcomes the call can have.
CallHandler(handler, context, parameters) ==
    CASE handler = Function("echo_model_handler") ->
            { echo_model_handler(context, parameters) }
      [] handler = Function("greeting_model_handler") ->
            { greeting_model_handler(context, parameters) }
      [] handler = Function("raising_handler") ->
            raising_handler(context, parameters)

MODEL_REGISTRY ==
    ("echo-model" :> Function("echo_model_handler"))
        @@ ("greeting-model" :> Function("greeting_model_handler"))

\* MODEL_REGISTRY with one more entry, a handler that fails.
FaultyRegistry == MODEL_REGISTRY @@ ("faulty-model" :> Function("raising_handler"))

\* model_id.strip().lower(), on the ids requests carry
Normalised(model_id) ==
    CASE model_id = "Echo-Model" -> "echo-model"
      [] model_id = "echo-model " -> "echo-model"
      [] OTHER -> model_id

\* Mutant: the lookup normalises the id first.
RegistryGetNormalised(reg, model_id) ==
    IF Normalised(model_id) \in DOMAIN reg THEN reg[Normalised(model_id)] ELSE None

\* MODEL_REGISTRY.get(model_id): dict lookup is by string equality.
RegistryGet(reg, model_id) ==
    IF model_id \in DOMAIN reg THEN reg[model_id] ELSE None

\* Mutant: MODEL_REGISTRY.pop(model_id, None), which removes the entry read.
RegistryAfterPop(reg, model_id) ==
    [k \in DOMAIN reg \ {model_id} |-> reg[k]]

\* The registry once MODEL_REGISTRY.get(model_id) has returned: dict.get
\* neither adds nor removes a key.
RegistryAfterGet(reg, model_id) == reg

-----------------------------------------------------------------------------
(* Request validation: class MCPRequest(BaseModel)                         *)

Invalid == [ok |-> FALSE]

\* Mutant: parameters declared without its default, so a body must give it.
MCPRequestParametersRequired(body) ==
    IF body.t # "obj" THEN Invalid
    ELSE LET model_id == DictGet(body, "model_id", None)
             context == DictGet(body, "context", None)
             parameters == DictGet(body, "parameters", None)
         IN  IF /\ model_id.t = "str"
                /\ context.t = "obj"
                /\ parameters.t \in {"obj", "null"}
             THEN [ok |-> TRUE, model_id |-> model_id.s,
                   context |-> context, parameters |-> parameters]
             ELSE Invalid

\* Mutant: context declared with a default of {}, so a body may omit it.
MCPRequestContextOptional(body) ==
    IF body.t # "obj" THEN Invalid
    ELSE LET model_id == DictGet(body, "model_id", None)
             context == DictGet(body, "context", JObj(<< >>))
             parameters == DictGet(body, "parameters", JNull)
         IN  IF /\ model_id.t = "str"
                /\ context.t = "obj"
                /\ parameters.t \in {"obj", "null"}
             THEN [ok |-> TRUE, model_id |-> model_id.s,
                   context |-> context, parameters |-> parameters]
             ELSE Invalid

\* The MCPRequest FastAPI builds from the JSON body, or Invalid (the request
\* is then answered 422 and invoke_model is not called).  model_id must be a
\* JSON string, context a JSON object, parameters a JSON object, null or
\* absent; keys the class does not declare are ignored.
MCPRequest(body) ==
    IF body.t # "obj" THEN Invalid
    ELSE LET model_id == DictGet(body, "model_id", None)
             context == DictGet(body, "context", None)
             parameters == DictGet(body, "parameters", JNull)
         IN  IF /\ model_id.t = "str"
                /\ context.t = "obj"
                /\ parameters.t \in {"obj", "null"}
             THEN [ok |-> TRUE, model_id |-> model_id.s,
                   context |-> context, parameters |-> parameters]
             ELSE Invalid

\* The 422 FastAPI answers to a body that fails validation; its body is the
\* framework's own.
ValidationError == [status |-> 422, body |-> [t |-> "framework"]]

\* The 500 the server answers when an exception leaves the endpoint.
ServerError == [status |-> 500, body |-> [t |-> "framework"]]

-----------------------------------------------------------------------------
(* Endpoints                                                               *)

\* Mutant: another liveness message.
ReadRootOk == [status |-> 200, body |-> JObj(<< <<"message", JStr("OK")>> >>)]

\* read_root()
read_root == [status |-> 200,
              body |-> JObj(<< <<"message", JStr("MCP Server is running")>> >>)]

\* HTTPException(status_code=code, detail={"model_id": .., "error": {..}})
HTTPException(code, model_id, message) ==
    [status |-> code,
     body |-> JObj(<< <<"detail",
                JObj(<< <<"model_id", JStr(model_id)>>,
                        <<"error", JObj(<< <<"code", JInt(code)>>,
                                           <<"message", JStr(message)>> >>)>>
                     >>)>> >>)]

\* Mutant: a message that leaves the id out.
NotFoundMessageNoId(model_id) == "Model not found."

\* f"Model '{request.model_id}' not found."
NotFoundMessage(model_id) == "Model '" \o model_id \o "' not found."

ExcParent ==
    [c \in {"ValueError", "KeyError", "LookupError", "RuntimeError", "Exception"}
        |-> CASE c = "KeyError" -> "LookupError"
              [] c = "Exception" -> "BaseException"
              [] OTHER -> "Exception"]

\* issubclass(cls, base)
RECURSIVE IsSubclass(_, _)
IsSubclass(cls, base) ==
    \/ cls = base
    \/ /\ cls \in DOMAIN ExcParent
       /\ IsSubclass(ExcParent[cls], base)

\* Mutant: `except ValueError as e`.
CaughtValueError(e) == IsSubclass(e.cls, "ValueError")

\* `except Exception as e` takes e
Caught(e) == IsSubclass(e.cls, "Exception")

\* str(e): the argument, and for a KeyError its repr
ExcStr(e) == IF e.cls = "KeyError" THEN PyRepr(JStr(e.arg)) ELSE e.arg

\* The try block of invoke_model, given what the handler call did.
TryHandler(request, outcome) ==
    IF outcome.kind = "return"
    THEN [resp |-> [status |-> 200,
                    body |-> JObj(<< <<"model_id", JStr(request.model_id)>>,
                                     <<"result", outcome.value>> >>)],
          escaped |-> FALSE]
    ELSE IF Caught(outcome)
    THEN [resp |-> HTTPException(500, request.model_id, ExcStr(outcome)),
          escaped |-> FALSE]
    ELSE [resp |-> ServerError, escaped |-> TRUE]

-----------------------------------------------------------------------------
(* The requests clients send                                               *)

Absent == [t |-> "absent"]

ModelIds ==
    { "echo-model", "greeting-model", "faulty-model", "non-existent-model",
      "Echo-Model", "echo-model ", "" }

Contexts ==
    { JObj(<< >>),
      JObj(<< <<"key", JStr("value")>>, <<"number", JInt(123)>> >>),
      JObj(<< <<"name", JStr("Jules")>> >>),
      JObj(<< <<"key", JStr("value")>>, <<"name", JStr("Jules")>> >>),
      JObj(<< <<"name", JStr("")>> >>),
      JObj(<< <<"name", JNull>> >>),
      JObj(<< <<"name", JInt(-MaxInt)>> >>),
      JObj(<< <<"name", JObj(<< <<"first", JStr("Ada")>>,
                                <<"tags", JList(<<JBool(TRUE), JInt(7)>>)>> >>)>> >>) }

ParameterValues == { JNull, JObj(<< <<"temperature", JInt(1)>> >>) }

\* What a body may hold under each key: nothing, a value of the declared
\* type, or a value of another type.
ModelIdFields == {Absent} \cup {JStr(m) : m \in ModelIds} \cup {JInt(7)}
ContextFields == {Absent} \cup Contexts \cup {JList(<<JStr("name")>>)}
ParameterFields == {Absent} \cup ParameterValues \cup {JStr("fast")}

Field(k, v) == IF v = Absent THEN << >> ELSE << <<k, v>> >>

Bodies ==
    { JObj(Field("model_id", m) \o Field("context", c) \o Field("parameters", p)) :
        m \in ModelIdFields, c \in ContextFields, p \in ParameterFields }
    \cup { JList(<< >>) }

-----------------------------------------------------------------------------
(* State machine                                                           *)

NoRequest == [method |-> "none", path |-> "", body |-> JNull]
NoResponse == [status |-> 0, body |-> JNull]

Start(reg) ==
    /\ registry = reg
    /\ req = NoRequest
    /\ resp = NoResponse
    /\ lookups = 0
    /\ calls = << >>
    /\ escaped = FALSE
    /\ seen = {}
    /\ served = 0

Init == Start(MODEL_REGISTRY)

InitFaulty == Start(FaultyRegistry)

\* The bookkeeping every request shares.
Receive(r) ==
    /\ served < MaxRequests
    /\ req' = r
    /\ served' = served + 1
    /\ seen' = IF served = 0 THEN seen ELSE seen \cup {resp.status}

\* GET /
GetRoot ==
    /\ Receive([method |-> "GET", path |-> "/", body |-> JNull])
    /\ resp' = read_root
    /\ lookups' = 0
    /\ calls' = << >>
    /\ escaped' = FALSE
    /\ UNCHANGED registry

\* POST /invoke with a JSON body
PostInvoke ==
    \E body \in Bodies :
        LET request == MCPRequest(body)
            handler == RegistryGet(registry, request.model_id)
        IN  /\ Receive([method |-> "POST", path |-> "/invoke", body |-> body])
            /\ registry' = IF request.ok
                           THEN RegistryAfterGet(registry, request.model_id)
                           ELSE registry
            /\ IF ~request.ok
               THEN /\ resp' = ValidationError
                    /\ lookups' = 0
                    /\ calls' = << >>
                    /\ escaped' = FALSE
               ELSE IF handler = None
               THEN /\ resp' = HTTPException(404, request.model_id,
                                             NotFoundMessage(request.model_id))
                    /\ lookups' = 1
                    /\ calls' = << >>
                    /\ escaped' = FALSE
               ELSE \E outcome \in CallHandler(handler, request.context,
                                               request.parameters) :
                        LET done == TryHandler(request, outcome)
                        IN  /\ resp' = done.resp
                            /\ escaped' = done.escaped
                            /\ lookups' = 1
                            /\ calls' = << [handler |-> handler,
                                            context |-> request.context,
                                            parameters |-> request.parameters,
                                            outcome |-> outcome] >>

Next == GetRoot \/ PostInvoke

Spec == Init /\ [][Next]_vars

SpecFaulty == InitFaulty /\ [][Next]_vars

-----------------------------------------------------------------------------
(* What the last request was, read from the request itself                 *)

IsPost == req.method = "POST"

\* A POST whose body is a JSON object.
PostedObject == IsPost /\ req.body.t = "obj"

\* The value the body gives under key k, Absent when it gives none.
Sent(k) == DictGet(req.body, k, Absent)

\* A body that passes validation.
WellFormed ==
    /\ PostedObject
    /\ Sent("model_id").t = "str"
    /\ Sent("context").t = "obj"
    /\ Sent("parameters").t \in {"absent", "null", "obj"}

\* The parameters a handler is given: None unless the body holds an object.
SentParameters == IF Sent("parameters").t = "obj" THEN Sent("parameters") ELSE JNull

Keys(d) == { d.o[n][1] : n \in 1..Len(d.o) }

\* The response is the success envelope {model_id, result}.
IsSuccessEnvelope ==
    /\ resp.status = 200
    /\ resp.body.t = "obj"
    /\ Keys(resp.body) = {"model_id", "result"}

\* The response is {"detail": {"model_id": id, "error": {"code": code,
\* "message": message}}} with status code.
IsErrorEnvelope(code, id, message) ==
    /\ resp.status = code
    /\ resp.body.t = "obj"
    /\ Keys(resp.body) = {"detail"}
    /\ LET detail == DictGet(resp.body, "detail", None)
           error == DictGet(detail, "error", None)
       IN  /\ detail.t = "obj"
           /\ Keys(detail) = {"model_id", "error"}
           /\ DictGet(detail, "model_id", None) = JStr(id)
           /\ error.t = "obj"
           /\ Keys(error) = {"code", "message"}
           /\ DictGet(error, "code", None) = JInt(code)
           /\ DictGet(error, "message", None) = JStr(message)

-----------------------------------------------------------------------------
(* Claims                                                                  *)

\* C1: a POST /invoke whose model_id is 'echo-model' or 'greeting-model',
\* whose context is an object and whose parameters are absent or an object
\* is answered 200 with the envelope {model_id, result}, model_id being the
\* request's, whatever the earlier requests were and however they ended.
C1_ValidRequestSucceeds ==
    ( /\ PostedObject
      /\ Sent("model_id") \in {JStr("echo-model"), JStr("greeting-model")}
      /\ Sent("context").t = "obj"
      /\ Sent("parameters").t \in {"absent", "obj"} )
    => /\ IsSuccessEnvelope
       /\ DictGet(resp.body, "model_id", None) = Sent("model_id")

\* A valid request answered 200 after requests that ended 422 and 404.
C1_Witness ==
    /\ PostedObject
    /\ Sent("model_id") = JStr("greeting-model")
    /\ Sent("context").t = "obj"
    /\ Sent("parameters").t = "absent"
    /\ resp.status = 200
    /\ {422, 404} \subseteq seen

\* C2: a valid body whose model_id is no key of the registry is answered 404
\* with detail.model_id the request's id, detail.error.code 404 and
\* detail.error.message "Model '<id>' not found."; no success envelope.
C2_UnknownModelIs404 ==
    ( WellFormed /\ Sent("model_id").s \notin {"echo-model", "greeting-model"} )
    => /\ IsErrorEnvelope(404, Sent("model_id").s,
                          "Model '" \o Sent("model_id").s \o "' not found.")
       /\ ~IsSuccessEnvelope

\* The request of test_invoke_model_not_found, answered with its message.
C2_Witness ==
    /\ WellFormed
    /\ Sent("model_id") = JStr("non-existent-model")
    /\ IsErrorEnvelope(404, "non-existent-model",
                       "Model 'non-existent-model' not found.")

\* C3: when the handler a request is dispatched to raises an error (an
\* instance of Exception), invoke_model catches it and answers 500 with the
\* request's model_id, error.code 500 and error.message str(error); the
\* error does not leave invoke_model and no success envelope is returned.
C3_HandlerErrorIs500 ==
    ( IsPost /\ Len(calls) > 0 /\ calls[Len(calls)].outcome.kind = "raise" )
    => LET e == calls[Len(calls)].outcome
       IN  /\ IsErrorEnvelope(500, Sent("model_id").s,
                  IF e.cls = "KeyError" THEN "'" \o e.arg \o "'" ELSE e.arg)
           /\ ~escaped
           /\ ~IsSuccessEnvelope

\* The handler raised KeyError('name') and the answer is 500 "'name'".
C3_Witness ==
    /\ IsPost
    /\ Len(calls) = 1
    /\ calls[1].outcome = Raise("KeyError", "name")
    /\ IsErrorEnvelope(500, "faulty-model", "'name'")

\* C4: a body that lacks model_id or context, or gives either with the wrong
\* type, is answered 422 before dispatch: no registry lookup and no handler
\* call, also when the model_id it gives is a registered one.
C4_MalformedIs422 ==
    ( /\ PostedObject
      /\ \/ Sent("model_id").t # "str"
         \/ Sent("context").t # "obj" )
    => /\ resp.status = 422
       /\ lookups = 0
       /\ calls = << >>

\* The request of test_invoke_malformed_request_missing_context: a
\* registered model_id and no context.
C4_Witness ==
    /\ PostedObject
    /\ Sent("model_id") = JStr("echo-model")
    /\ Sent("context") = Absent
    /\ resp.status = 422
    /\ lookups = 0

\* C5: every request that reaches the registry lookup has a non-empty
\* model_id.
C5_LookupHasNonEmptyId ==
    ( IsPost /\ lookups > 0 ) => Sent("model_id") # JStr("")

\* C6: 'echo-model' answers result {"echo": c} for the request's context c,
\* whatever the parameters.
C6_EchoReturnsContext ==
    ( WellFormed /\ Sent("model_id") = JStr("echo-model") )
    => /\ IsSuccessEnvelope
       /\ DictGet(resp.body, "result", None)
              = JObj(<< <<"echo", Sent("context")>> >>)

\* A nested context echoed by a request that also gave parameters.
C6_Witness ==
    /\ WellFormed
    /\ Sent("model_id") = JStr("echo-model")
    /\ Sent("parameters").t = "obj"
    /\ DictHas(Sent("context"), "name")
    /\ DictGet(Sent("context"), "name", None).t = "obj"
    /\ resp.status = 200
    /\ DictGet(DictGet(resp.body, "result", None), "echo", None) = Sent("context")

\* C7: 'greeting-model' answers result {"greeting": "Hello, <name>!"}, <name>
\* being str() of the context's 'name' value when the key is present and
\* "World" when it is not, whatever the other keys and the parameters.
C7_GreetingUsesName ==
    ( WellFormed /\ Sent("model_id") = JStr("greeting-model") )
    => LET c == Sent("context")
           greeting == IF DictHas(c, "name")
                       THEN "Hello, " \o PyStr(DictGet(c, "name", None)) \o "!"
                       ELSE "Hello, World!"
       IN  /\ IsSuccessEnvelope
           /\ DictGet(resp.body, "result", None)
                  = JObj(<< <<"greeting", JStr(greeting)>> >>)
           /\ DictGet(c, "name", None) = JStr("Jules")
                  => greeting = "Hello, Jules!"
           /\ DictGet(c, "name", None) = JStr("") => greeting = "Hello, !"
           /\ DictGet(c, "name", None) = JNull => greeting = "Hello, None!"

\* The default greets a context that has other keys and no name.
C7_Witness ==
    /\ WellFormed
    /\ Sent("model_id") = JStr("greeting-model")
    /\ DictHas(Sent("context"), "key")
    /\ ~DictHas(Sent("context"), "name")
    /\ Sent("parameters").t = "obj"
    /\ DictGet(resp.body, "result", None)
           = JObj(<< <<"greeting", JStr("Hello, World!")>> >>)

\* C8: GET / is answered 200 {"message": "MCP Server is running"} after any
\* requests, and it neither reads the registry nor calls a handler.
C8_RootIsFixed ==
    req.method = "GET"
    => /\ resp.status = 200
       /\ resp.body = JObj(<< <<"message", JStr("MCP Server is running")>> >>)
       /\ lookups = 0
       /\ calls = << >>

\* GET / after requests that ended 200, 404 and 422.
C8_Witness ==
    /\ req.method = "GET"
    /\ resp.status = 200
    /\ {200, 404, 422} \subseteq seen

\* C9: MODEL_REGISTRY maps 'echo-model' and 'greeting-model', and nothing
\* else, to their handlers in every state: no request changes it.
C9_RegistryIsFixed ==
    /\ DOMAIN registry = {"echo-model", "greeting-model"}
    /\ registry["echo-model"] = Function("echo_model_handler")
    /\ registry["greeting-model"] = Function("greeting_model_handler")

\* The registry after a success, a 404 and a 422, and one more request.
C9_Witness ==
    /\ {200, 404, 422} \subseteq seen
    /\ served = 4
    /\ DOMAIN registry = {"echo-model", "greeting-model"}

\* C10: a validated request calls a handler if and only if its model_id is
\* equal to a registry key; then it calls the handler under that key, once,
\* with the request's context and parameters, also when the call raises.
C10_ExactMatchDispatch ==
    WellFormed
    => LET id == Sent("model_id").s
       IN  /\ Len(calls) = (IF id \in DOMAIN registry THEN 1 ELSE 0)
           /\ id \in {"Echo-Model", "echo-model ", ""} => calls = << >>
           /\ id \in DOMAIN registry
                => /\ calls[1].handler = registry[id]
                   /\ calls[1].context = Sent("context")
                   /\ calls[1].parameters = SentParameters

\* A handler that raised, called once, after a request that missed.
C10_Witness ==
    /\ WellFormed
    /\ Sent("model_id") = JStr("faulty-model")
    /\ Len(calls) = 1
    /\ calls[1].outcome.kind = "raise"
    /\ resp.status = 500
    /\ 404 \in seen

====
